---- MODULE Spec2Model ----
(***************************************************************************)
(* Retail checkout flow of src/main.py: an Inventory of Products, two      *)
(* ShoppingCarts (each with its own Customer) sharing that Inventory, and  *)
(* the wall clock that Product.is_expired reads.                           *)
(*                                                                         *)
(* Money and amounts are integers (the Python code uses int/float          *)
(* arithmetic; the prices here are whole currency units, so every sum and  *)
(* difference is exact in both).  A CartItem's Product reference is the    *)
(* product's name: Inventory.add_product is only called before any cart    *)
(* activity, so the name identifies the shared Product object.             *)
(***************************************************************************)
EXTENDS Integers, Sequences, FiniteSets, TLC

\* ---------------------------------------------------------------- bounds
MaxAmount == 2
MaxLines == 2
MaxStock == 3
MaxDeducted == 2
InitBalance == 8

\* ------------------------------------------------------------- constants
SHIPPING_FEE == 5

Carts == {"cart1", "cart2"}
Customers == {"u1", "u2"}
Names == {"Cheese", "TV", "Card", "Ghost"}
Amounts == 1 .. MaxAmount

\* the Customer a ShoppingCart was constructed with
customer(c) == IF c = "cart1" THEN "u1" ELSE "u2"

\* expiration_date: <<>> is None, <<d>> is the calendar day d
SeedProducts ==
  [n \in {"Cheese", "TV", "Card"} |->
     CASE n = "Cheese" ->
            [name |-> n, price_per_unit |-> 1, expiration_date |-> <<1>>,
             is_shippable |-> TRUE, by_weight |-> TRUE,
             available_quantity |-> 0, available_weight |-> 2]
       [] n = "TV" ->
            [name |-> n, price_per_unit |-> 3, expiration_date |-> <<>>,
             is_shippable |-> TRUE, by_weight |-> FALSE,
             available_quantity |-> 1, available_weight |-> 0]
       [] OTHER ->
            [name |-> n, price_per_unit |-> 2, expiration_date |-> <<>>,
             is_shippable |-> FALSE, by_weight |-> FALSE,
             available_quantity |-> 1, available_weight |-> 3]]

VARIABLES
  products,   \* Inventory.products: name -> Product
  balance,    \* Customer.balance, per customer
  items,      \* ShoppingCart.__items, per cart: sequence of CartItem
  now,        \* datetime.now(), in days
  last,       \* the last call: what was called, with what, and its outcome
  prev,       \* products, balance, items and now as they were before it
  sold,       \* per product, the amounts of the lines of all completed orders
  paid        \* per customer, the totals of all completed orders

vars == <<products, balance, items, now, last, prev, sold, paid>>

\* ------------------------------------------------------------ Product
is_expired(p, t) ==
  IF p.expiration_date = <<>> THEN FALSE ELSE p.expiration_date[1] < t

\* mutant: the amount is left out of the line price
Product_get_total_price_unit(p, amount) == p.price_per_unit

Product_get_total_price(p, amount) == p.price_per_unit * amount

get_weight(p, amount) == IF p.by_weight THEN amount ELSE 0

\* ---------------------------------------------------------- Inventory
has_product(inv, name) == name \in DOMAIN inv

\* mutant: the boundary amount = stock is refused
is_available_exclusive(inv, t, name, amount) ==
  IF ~has_product(inv, name) \/ is_expired(inv[name], t)
    THEN [ok |-> FALSE, msg |-> "not found or expired"]
  ELSE IF inv[name].by_weight
    THEN IF amount >= inv[name].available_weight
           THEN [ok |-> FALSE, msg |-> "only g available"]
           ELSE [ok |-> TRUE, msg |-> ""]
    ELSE IF amount >= inv[name].available_quantity
           THEN [ok |-> FALSE, msg |-> "only units available"]
           ELSE [ok |-> TRUE, msg |-> ""]

is_available(inv, t, name, amount) ==
  IF ~has_product(inv, name) \/ is_expired(inv[name], t)
    THEN [ok |-> FALSE, msg |-> "not found or expired"]
  ELSE IF inv[name].by_weight
    THEN IF amount > inv[name].available_weight
           THEN [ok |-> FALSE, msg |-> "only g available"]
           ELSE [ok |-> TRUE, msg |-> ""]
    ELSE IF amount > inv[name].available_quantity
           THEN [ok |-> FALSE, msg |-> "only units available"]
           ELSE [ok |-> TRUE, msg |-> ""]

\* mutant: a deduction larger than the stock is refused
deduct_stock_checked(inv, name, amount) ==
  IF has_product(inv, name)
    THEN IF inv[name].by_weight
           THEN IF amount > inv[name].available_weight THEN inv
                ELSE [inv EXCEPT ![name].available_weight = @ - amount]
           ELSE IF amount > inv[name].available_quantity THEN inv
                ELSE [inv EXCEPT ![name].available_quantity = @ - amount]
    ELSE inv

\* mutant: the amount is added to the counter
deduct_stock_adds(inv, name, amount) ==
  IF has_product(inv, name)
    THEN IF inv[name].by_weight
           THEN [inv EXCEPT ![name].available_weight = @ + amount]
           ELSE [inv EXCEPT ![name].available_quantity = @ + amount]
    ELSE inv

\* mutant: the unit counter is deducted whatever by_weight says
deduct_stock_quantity_only(inv, name, amount) ==
  IF has_product(inv, name)
    THEN [inv EXCEPT ![name].available_quantity = @ - amount]
    ELSE inv

deduct_stock(inv, name, amount) ==
  IF has_product(inv, name)
    THEN IF inv[name].by_weight
           THEN [inv EXCEPT ![name].available_weight = @ - amount]
           ELSE [inv EXCEPT ![name].available_quantity = @ - amount]
    ELSE inv

\* ----------------------------------------------------------- CartItem
CartItem(name, amount) == [product |-> name, amount |-> amount]

CartItem_get_total_price(inv, item) ==
  Product_get_total_price(inv[item.product], item.amount)

CartItem_get_weight(inv, item) == get_weight(inv[item.product], item.amount)

\* ------------------------------------------------------- ShoppingCart
RECURSIVE get_total_price(_, _)
get_total_price(inv, its) ==
  IF its = <<>> THEN 0
  ELSE CartItem_get_total_price(inv, Head(its)) + get_total_price(inv, Tail(its))

\* mutant: nothing is filtered out
get_shippable_items_all(inv, its) == its

RECURSIVE get_shippable_items(_, _)
get_shippable_items(inv, its) ==
  IF its = <<>> THEN <<>>
  ELSE IF inv[Head(its).product].is_shippable
    THEN <<Head(its)>> \o get_shippable_items(inv, Tail(its))
    ELSE get_shippable_items(inv, Tail(its))

is_empty(its) == Len(its) = 0

\* ShippingService.send_items: what is reported for each item
send_items(inv, its) ==
  [i \in 1 .. Len(its) |->
     [name |-> its[i].product, weight |-> CartItem_get_weight(inv, its[i])]]

\* mutant: the availability check is skipped
add_item_unchecked(inv, bal, its, t, name, amount) ==
  IF ~has_product(inv, name)
    THEN [outcome |-> "not_found", products |-> inv, balance |-> bal, items |-> its]
  ELSE IF is_expired(inv[name], t)
    THEN [outcome |-> "expired", products |-> inv, balance |-> bal, items |-> its]
  ELSE [outcome |-> "added", products |-> inv, balance |-> bal,
        items |-> Append(its, CartItem(name, amount))]

\* mutant: a successful add reserves the stock by deducting it
add_item_reserving(inv, bal, its, t, name, amount) ==
  IF ~has_product(inv, name)
    THEN [outcome |-> "not_found", products |-> inv, balance |-> bal, items |-> its]
  ELSE IF is_expired(inv[name], t)
    THEN [outcome |-> "expired", products |-> inv, balance |-> bal, items |-> its]
  ELSE IF ~is_available(inv, t, name, amount).ok
    THEN [outcome |-> "insufficient_stock", products |-> inv, balance |-> bal,
          items |-> its]
  ELSE [outcome |-> "added", products |-> deduct_stock(inv, name, amount),
        balance |-> bal, items |-> Append(its, CartItem(name, amount))]

\* add_item as a function of the state it reads: the outcome and the state
\* it leaves
add_item(inv, bal, its, t, name, amount) ==
  IF ~has_product(inv, name)
    THEN [outcome |-> "not_found", products |-> inv, balance |-> bal, items |-> its]
  ELSE IF is_expired(inv[name], t)
    THEN [outcome |-> "expired", products |-> inv, balance |-> bal, items |-> its]
  ELSE IF ~is_available(inv, t, name, amount).ok
    THEN [outcome |-> "insufficient_stock", products |-> inv, balance |-> bal,
          items |-> its]
  ELSE [outcome |-> "added", products |-> inv, balance |-> bal,
        items |-> Append(its, CartItem(name, amount))]

\* mutant: every line is deducted from the counter as it was before the
\* loop, so of several lines for one product only the last one counts
deduct_all_overwrite(inv, its) ==
  [n \in DOMAIN inv |->
     IF \E i \in 1 .. Len(its) : its[i].product = n
       THEN LET k == CHOOSE i \in 1 .. Len(its) :
                       /\ its[i].product = n
                       /\ \A j \in 1 .. Len(its) : its[j].product = n => j <= i
            IN deduct_stock(inv, n, its[k].amount)[n]
       ELSE inv[n]]

\* the commit loop of checkout: deduct_stock for every item, in cart order
RECURSIVE deduct_all(_, _)
deduct_all(inv, its) ==
  IF its = <<>> THEN inv
  ELSE deduct_all(deduct_stock(inv, Head(its).product, Head(its).amount), Tail(its))

\* what checkout hands to ShippingService: one dispatch, or none
dispatch_of(inv, its) ==
  IF get_shippable_items(inv, its) # <<>>
    THEN <<send_items(inv, get_shippable_items(inv, its))>>
    ELSE <<>>

\* mutant: the customer is charged before the stock is deducted
commit_log_charge_first(inv, its) ==
  <<"validate", "charge">> \o [i \in 1 .. Len(its) |-> "deduct"]
    \o (IF dispatch_of(inv, its) # <<>> THEN <<"dispatch">> ELSE <<>>)
    \o <<"clear">>

\* the steps of a checkout that passed its validations, in the order the
\* code takes them: one deduct_stock per line, the charge, the dispatch if
\* there is something to ship, the clearing of the cart
commit_log(inv, its) ==
  <<"validate">> \o [i \in 1 .. Len(its) |-> "deduct"] \o <<"charge">>
    \o (IF dispatch_of(inv, its) # <<>> THEN <<"dispatch">> ELSE <<>>)
    \o <<"clear">>

\* mutant: the balance is compared with the subtotal, without the fee
checkout_fee_unchecked(inv, bal, its, t) ==
  IF is_empty(its)
    THEN [outcome |-> "empty", products |-> inv, balance |-> bal, items |-> its,
          dispatch |-> <<>>, log |-> <<"validate">>]
  ELSE IF \E i \in 1 .. Len(its) : is_expired(inv[its[i].product], t)
    THEN [outcome |-> "expired", products |-> inv, balance |-> bal, items |-> its,
          dispatch |-> <<>>, log |-> <<"validate">>]
  ELSE IF bal < get_total_price(inv, its)
    THEN [outcome |-> "insufficient_balance", products |-> inv, balance |-> bal,
          items |-> its, dispatch |-> <<>>,
          log |-> <<"validate">>]
  ELSE [outcome |-> "success",
        products |-> deduct_all(inv, its),
        balance |-> bal - (get_total_price(inv, its) + SHIPPING_FEE),
        items |-> <<>>,
        dispatch |-> dispatch_of(inv, its),
        log |-> commit_log(inv, its)]

\* mutant: the stock is deducted before the balance is compared
checkout_deduct_first(inv, bal, its, t) ==
  IF is_empty(its)
    THEN [outcome |-> "empty", products |-> inv, balance |-> bal, items |-> its,
          dispatch |-> <<>>, log |-> <<"validate">>]
  ELSE IF \E i \in 1 .. Len(its) : is_expired(inv[its[i].product], t)
    THEN [outcome |-> "expired", products |-> inv, balance |-> bal, items |-> its,
          dispatch |-> <<>>, log |-> <<"validate">>]
  ELSE IF bal < get_total_price(inv, its) + SHIPPING_FEE
    THEN [outcome |-> "insufficient_balance", products |-> deduct_all(inv, its),
          balance |-> bal, items |-> its, dispatch |-> <<>>,
          log |-> <<"validate">>]
  ELSE [outcome |-> "success",
        products |-> deduct_all(inv, its),
        balance |-> bal - (get_total_price(inv, its) + SHIPPING_FEE),
        items |-> <<>>,
        dispatch |-> dispatch_of(inv, its),
        log |-> commit_log(inv, its)]

\* mutant: the balance is compared before the lines are checked for expiry
checkout_balance_first(inv, bal, its, t) ==
  IF is_empty(its)
    THEN [outcome |-> "empty", products |-> inv, balance |-> bal, items |-> its,
          dispatch |-> <<>>, log |-> <<"validate">>]
  ELSE IF bal < get_total_price(inv, its) + SHIPPING_FEE
    THEN [outcome |-> "insufficient_balance", products |-> inv, balance |-> bal,
          items |-> its, dispatch |-> <<>>,
          log |-> <<"validate">>]
  ELSE IF \E i \in 1 .. Len(its) : is_expired(inv[its[i].product], t)
    THEN [outcome |-> "expired", products |-> inv, balance |-> bal, items |-> its,
          dispatch |-> <<>>, log |-> <<"validate">>]
  ELSE [outcome |-> "success",
        products |-> deduct_all(inv, its),
        balance |-> bal - (get_total_price(inv, its) + SHIPPING_FEE),
        items |-> <<>>,
        dispatch |-> dispatch_of(inv, its),
        log |-> commit_log(inv, its)]

\* mutant: the cart is not cleared after the commit
checkout_keeps_items(inv, bal, its, t) ==
  IF is_empty(its)
    THEN [outcome |-> "empty", products |-> inv, balance |-> bal, items |-> its,
          dispatch |-> <<>>, log |-> <<"validate">>]
  ELSE IF \E i \in 1 .. Len(its) : is_expired(inv[its[i].product], t)
    THEN [outcome |-> "expired", products |-> inv, balance |-> bal, items |-> its,
          dispatch |-> <<>>, log |-> <<"validate">>]
  ELSE IF bal < get_total_price(inv, its) + SHIPPING_FEE
    THEN [outcome |-> "insufficient_balance", products |-> inv, balance |-> bal,
          items |-> its, dispatch |-> <<>>,
          log |-> <<"validate">>]
  ELSE [outcome |-> "success",
        products |-> deduct_all(inv, its),
        balance |-> bal - (get_total_price(inv, its) + SHIPPING_FEE),
        items |-> its,
        dispatch |-> dispatch_of(inv, its),
        log |-> commit_log(inv, its)]

\* checkout as a function of the state it reads; bal is the balance of the
\* cart's customer
checkout(inv, bal, its, t) ==
  LET subtotal == get_total_price(inv, its)
      total == subtotal + SHIPPING_FEE
  IN
  IF is_empty(its)
    THEN [outcome |-> "empty", products |-> inv, balance |-> bal, items |-> its,
          dispatch |-> <<>>, log |-> <<"validate">>]
  ELSE IF \E i \in 1 .. Len(its) : is_expired(inv[its[i].product], t)
    THEN [outcome |-> "expired", products |-> inv, balance |-> bal, items |-> its,
          dispatch |-> <<>>, log |-> <<"validate">>]
  ELSE IF bal < total
    THEN [outcome |-> "insufficient_balance", products |-> inv, balance |-> bal,
          items |-> its, dispatch |-> <<>>,
          log |-> <<"validate">>]
  ELSE [outcome |-> "success",
        products |-> deduct_all(inv, its),
        balance |-> bal - total,
        items |-> <<>>,
        dispatch |-> dispatch_of(inv, its),
        log |-> commit_log(inv, its)]

\* ------------------------------------------------------------ the calls
Snapshot == [products |-> products, balance |-> balance, items |-> items, now |-> now]

\* the cart whose successful checkout the last call was, if it was one
Before ==
  IF last.op = "checkout" /\ last.outcome = "success" THEN last.cart ELSE "none"

NoCall ==
  [op |-> "init", cart |-> "none", name |-> "none", amount |-> 0,
   outcome |-> "none", dispatch |-> <<>>, log |-> <<>>,
   before |-> "none"]

\* no order has been completed yet
NothingSold ==
  /\ sold = [n \in DOMAIN SeedProducts |-> 0]
  /\ paid = [u \in Customers |-> 0]

\* the amount its orders of product n
RECURSIVE ordered(_, _)
ordered(n, its) ==
  IF its = <<>> THEN 0
  ELSE (IF Head(its).product = n THEN Head(its).amount ELSE 0) + ordered(n, Tail(its))

\* the number of lines in all carts
TotalLines == Len(items["cart1"]) + Len(items["cart2"])

Init ==
  /\ products = SeedProducts
  /\ balance = [u \in Customers |-> InitBalance]
  /\ items = [c \in Carts |-> <<>>]
  /\ now = 1
  /\ last = NoCall
  /\ prev = [products |-> SeedProducts,
             balance |-> [u \in Customers |-> InitBalance],
             items |-> [c \in Carts |-> <<>>],
             now |-> 1]
  /\ NothingSold

AddItem(c, name, amount) ==
  LET r == add_item(products, balance[customer(c)], items[c], now, name, amount) IN
  /\ TotalLines < MaxLines
  /\ products' = r.products
  /\ balance' = [balance EXCEPT ![customer(c)] = r.balance]
  /\ items' = [items EXCEPT ![c] = r.items]
  /\ last' = [op |-> "add_item", cart |-> c, name |-> name, amount |-> amount,
              outcome |-> r.outcome, dispatch |-> <<>>, log |-> <<>>,
              before |-> Before]
  /\ prev' = Snapshot
  /\ UNCHANGED <<now, sold, paid>>

Checkout(c) ==
  LET r == checkout(products, balance[customer(c)], items[c], now) IN
  /\ products' = r.products
  /\ balance' = [balance EXCEPT ![customer(c)] = r.balance]
  /\ items' = [items EXCEPT ![c] = r.items]
  /\ last' = [op |-> "checkout", cart |-> c, name |-> "none", amount |-> 0,
              outcome |-> r.outcome, dispatch |-> r.dispatch, log |-> r.log,
              before |-> Before]
  /\ prev' = Snapshot
  /\ sold' = IF r.outcome = "success"
               THEN [n \in DOMAIN sold |-> sold[n] + ordered(n, items[c])]
               ELSE sold
  /\ paid' = IF r.outcome = "success"
               THEN [paid EXCEPT ![customer(c)] =
                       @ + get_total_price(products, items[c]) + SHIPPING_FEE]
               ELSE paid
  /\ UNCHANGED now

\* a direct Inventory.is_available query
IsAvailable(name, amount) ==
  LET r == is_available(products, now, name, amount) IN
  /\ last' = [op |-> "is_available", cart |-> "none", name |-> name,
              amount |-> amount,
              outcome |-> IF r.ok THEN "ok" ELSE r.msg,
              dispatch |-> <<>>, log |-> <<>>, before |-> Before]
  /\ prev' = Snapshot
  /\ UNCHANGED <<products, balance, items, now, sold, paid>>

\* the wall clock advances by a day; once every dated product is expired
\* no call reads a different answer from a later clock
Tick ==
  /\ \E n \in DOMAIN products :
       products[n].expiration_date # <<>> /\ ~is_expired(products[n], now)
  /\ now' = now + 1
  /\ UNCHANGED <<products, balance, items, last, prev, sold, paid>>

Next ==
  \/ \E c \in Carts, name \in Names, amount \in Amounts : AddItem(c, name, amount)
  \/ \E c \in Carts : Checkout(c)
  \/ Tick

Spec == Init /\ [][Next]_vars

\* Inventory.is_available on its own: any stock in either counter of one
\* product, queried for any name and amount at any time
StockRange == 0 .. MaxStock

InitAvail ==
  /\ \E n \in DOMAIN SeedProducts, q \in StockRange, w \in StockRange :
        products = [SeedProducts EXCEPT ![n].available_quantity = q,
                                        ![n].available_weight = w]
  /\ balance = [u \in Customers |-> InitBalance]
  /\ items = [c \in Carts |-> <<>>]
  /\ now = 1
  /\ last = NoCall
  /\ prev = [products |-> products, balance |-> balance, items |-> items,
             now |-> now]
  /\ NothingSold

NextAvail ==
  \/ \E name \in Names, amount \in Amounts : IsAvailable(name, amount)
  \/ Tick

SpecAvail == InitAvail /\ [][NextAvail]_vars

\* what has been deducted from the seeded stock so far, over all products
RECURSIVE Deducted(_)
Deducted(ns) ==
  IF ns = {} THEN 0
  ELSE LET n == CHOOSE x \in ns : TRUE IN
       (IF products[n].by_weight
          THEN SeedProducts[n].available_weight - products[n].available_weight
          ELSE SeedProducts[n].available_quantity - products[n].available_quantity)
       + Deducted(ns \ {n})

\* Inventory.deduct_stock called directly, besides one cart's calls; no
\* further direct call once MaxDeducted has been deducted in all
DeductStock(name, amount) ==
  /\ Deducted(DOMAIN products) < MaxDeducted
  /\ products' = deduct_stock(products, name, amount)
  /\ last' = [op |-> "deduct_stock", cart |-> "none", name |-> name,
              amount |-> amount, outcome |-> "none",
              dispatch |-> <<>>, log |-> <<>>, before |-> Before]
  /\ prev' = Snapshot
  /\ UNCHANGED <<balance, items, now, sold, paid>>

NextDeduct ==
  \/ \E name \in Names, amount \in Amounts : AddItem("cart1", name, amount)
  \/ Checkout("cart1")
  \/ \E name \in Names, amount \in Amounts : DeductStock(name, amount)
  \/ Tick

SpecDeduct == Init /\ [][NextDeduct]_vars

\* One cart alone on the Inventory, asked only for non-negative amounts and
\* never for a product it already holds a line of; its customer can pay for
\* more than one order
NonNegativeAmounts == 0 .. MaxAmount

Holds(its, name) == \E i \in 1 .. Len(its) : its[i].product = name

InitSingle ==
  /\ products = SeedProducts
  /\ balance = [u \in Customers |-> 2 * InitBalance]
  /\ items = [c \in Carts |-> <<>>]
  /\ now = 1
  /\ last = NoCall
  /\ prev = [products |-> products, balance |-> balance, items |-> items,
             now |-> now]
  /\ NothingSold

NextSingle ==
  \/ \E name \in Names, amount \in NonNegativeAmounts :
        ~Holds(items["cart1"], name) /\ AddItem("cart1", name, amount)
  \/ Checkout("cart1")
  \/ Tick

SpecSingle == InitSingle /\ [][NextSingle]_vars

\* Scenario A of the demonstration: one cart, Cheese by weight with 2000 g
\* in stock, a customer with a balance of 20000, amounts of 1000 g and 1500 g
ScenarioAmounts == {1000, 1500}

InitA ==
  /\ products = [SeedProducts EXCEPT !["Cheese"].available_weight = 2000]
  /\ balance = [u \in Customers |-> 20000]
  /\ items = [c \in Carts |-> <<>>]
  /\ now = 1
  /\ last = NoCall
  /\ prev = [products |-> products, balance |-> balance, items |-> items,
             now |-> now]
  /\ NothingSold

NextA ==
  \/ \E name \in Names, amount \in ScenarioAmounts : AddItem("cart1", name, amount)
  \/ Checkout("cart1")
  \/ Tick

SpecA == InitA /\ [][NextA]_vars

\* ================================================================ claims
\* the stock counter that by_weight selects, and the other one
Active(p) == IF p.by_weight THEN p.available_weight ELSE p.available_quantity
Inactive(p) == IF p.by_weight THEN p.available_quantity ELSE p.available_weight

\* sum over the lines of price_per_unit * amount, at the prices of inv
RECURSIVE LineSum(_, _)
LineSum(inv, its) ==
  IF its = <<>> THEN 0
  ELSE inv[Head(its).product].price_per_unit * Head(its).amount
       + LineSum(inv, Tail(its))

\* the last call was a checkout / an add_item; the cart it was made on, that
\* cart's lines before the call, and its customer
LastCheckout == last.op = "checkout"
LastAdd == last.op = "add_item"
LinesBefore == prev.items[last.cart]
Payer == customer(last.cart)

\* the cart the last checkout was called on failed one of its validations
FailedValidation ==
  \/ LinesBefore = <<>>
  \/ \E i \in 1 .. Len(LinesBefore) :
       is_expired(prev.products[LinesBefore[i].product], prev.now)
  \/ prev.balance[Payer] < LineSum(prev.products, LinesBefore) + SHIPPING_FEE

NothingChanged ==
  /\ products = prev.products
  /\ balance = prev.balance
  /\ items = prev.items

\* C1: after any sequence of add_item and checkout calls every product's
\* active stock counter is non-negative.  (Stated as claimed; the code
\* violates it.)
C1_StockNeverNegative ==
  \A n \in DOMAIN products : Active(products[n]) >= 0

\* C2: after any sequence of add_item and checkout calls every customer's
\* balance is non-negative.
C2_BalanceNeverNegative ==
  \A u \in Customers : balance[u] >= 0

\* a checkout has charged a customer down to exactly zero
C2_Witness ==
  /\ LastCheckout /\ last.outcome = "success"
  /\ prev.balance[Payer] > 0
  /\ balance[Payer] = 0

\* C3: a checkout that fails a validation step (empty cart, an expired
\* line, balance < subtotal + fee) is not a success, leaves every stock
\* counter, every balance and every cart as they were, and dispatches nothing.
C3_FailedCheckoutChangesNothing ==
  (LastCheckout /\ FailedValidation) =>
     /\ last.outcome # "success"
     /\ NothingChanged
     /\ last.dispatch = <<>>

\* a checkout of a non-empty cart was refused for insufficient balance and
\* the cart still holds its lines
C3_Witness ==
  /\ LastCheckout /\ last.outcome = "insufficient_balance"
  /\ Len(items[last.cart]) = 2
  /\ prev.balance[Payer] < LineSum(prev.products, LinesBefore) + SHIPPING_FEE

\* C4: after a successful checkout the customer's balance is the balance
\* before the call minus (subtotal + 5), subtotal being the sum over the
\* cart's lines of price_per_unit * amount.
C4_BalanceAfterCheckout ==
  (LastCheckout /\ last.outcome = "success") =>
     balance[Payer] = prev.balance[Payer] - (LineSum(prev.products, LinesBefore) + 5)

\* a successful checkout of two lines, one of them for an amount of 2
C4_Witness ==
  /\ LastCheckout /\ last.outcome = "success"
  /\ Len(LinesBefore) = 2
  /\ \E i \in 1 .. 2 : LinesBefore[i].amount = 2
  /\ balance[Payer] < prev.balance[Payer]

\* C5 as claimed: after a successful checkout, for every line that was in
\* the cart, the active counter of the line's product is its value before
\* the checkout minus that line's amount.  (The code violates it when two
\* lines name one product.)
C5_EachLineDeductedExactly ==
  (LastCheckout /\ last.outcome = "success") =>
     \A i \in 1 .. Len(LinesBefore) :
        Active(products[LinesBefore[i].product])
          = Active(prev.products[LinesBefore[i].product]) - LinesBefore[i].amount

\* C5 as amended: the same, for every line whose product no other line of
\* the cart names.
C5_SingleLineDeductedExactly ==
  (LastCheckout /\ last.outcome = "success") =>
     \A i \in 1 .. Len(LinesBefore) :
        (\A j \in 1 .. Len(LinesBefore) :
            j # i => LinesBefore[j].product # LinesBefore[i].product)
        => Active(products[LinesBefore[i].product])
             = Active(prev.products[LinesBefore[i].product]) - LinesBefore[i].amount

\* a successful checkout of two lines for two products, one by weight and
\* one by unit
C5_Witness ==
  /\ LastCheckout /\ last.outcome = "success"
  /\ Len(LinesBefore) = 2
  /\ prev.products[LinesBefore[1].product].by_weight
       # prev.products[LinesBefore[2].product].by_weight

\* C6 as claimed: a checkout in which some line's product is expired, or
\* some line's amount exceeds the product's current active counter, is
\* rejected and changes nothing.  (The code violates it: checkout never
\* compares a line with the stock.)
C6_CheckoutRevalidatesLines ==
  (/\ LastCheckout
   /\ \E i \in 1 .. Len(LinesBefore) :
        \/ is_expired(prev.products[LinesBefore[i].product], prev.now)
        \/ LinesBefore[i].amount > Active(prev.products[LinesBefore[i].product]))
  => (last.outcome # "success" /\ NothingChanged)

\* C7: after a successful checkout the cart is empty, and a checkout of the
\* same cart called next is the empty-cart rejection and changes no stock
\* counter and no balance.
C7_EmptyAfterCheckout ==
  /\ (LastCheckout /\ last.outcome = "success") => is_empty(items[last.cart])
  /\ (LastCheckout /\ last.before = last.cart) =>
        /\ last.outcome = "empty"
        /\ products = prev.products
        /\ balance = prev.balance

\* a checkout was called on a cart right after that cart's successful
\* checkout
C7_Witness ==
  /\ LastCheckout /\ last.before = last.cart
  /\ last.outcome = "empty"
  /\ \E u \in Customers : balance[u] < InitBalance

\* C8: is_available(name, amount) succeeds exactly when the product exists,
\* is not expired and amount <= the counter by_weight selects.
C8_IsAvailableExact ==
  last.op = "is_available" =>
     ((last.outcome = "ok") <=>
        /\ last.name \in DOMAIN prev.products
        /\ ~is_expired(prev.products[last.name], prev.now)
        /\ last.amount <= Active(prev.products[last.name]))

\* a query for exactly the available stock succeeded although the inactive
\* counter is below the amount
C8_Witness ==
  /\ last.op = "is_available" /\ last.outcome = "ok"
  /\ last.amount = Active(prev.products[last.name])
  /\ Inactive(prev.products[last.name]) < last.amount

\* C9: the outcome of add_item is, in this priority, not-found, expired,
\* insufficient-stock, added; the cart gains the line (product, amount) at
\* its end when added and is unchanged otherwise.
ExpectedAdd ==
  IF last.name \notin DOMAIN prev.products THEN "not_found"
  ELSE IF is_expired(prev.products[last.name], prev.now) THEN "expired"
  ELSE IF last.amount > Active(prev.products[last.name]) THEN "insufficient_stock"
  ELSE "added"

C9_AddItemOutcome ==
  LastAdd =>
     /\ last.outcome = ExpectedAdd
     /\ ExpectedAdd = "added" =>
          items = [prev.items EXCEPT ![last.cart] =
                     Append(@, [product |-> last.name, amount |-> last.amount])]
     /\ ExpectedAdd # "added" => items = prev.items

\* a second line was appended after the first
C9_Witness ==
  /\ LastAdd /\ last.outcome = "added"
  /\ Len(items[last.cart]) = 2
  /\ items[last.cart][2] = [product |-> last.name, amount |-> last.amount]
  /\ items[last.cart][1] # items[last.cart][2]

\* C10: add_item, added or rejected, leaves every stock counter and every
\* balance unchanged.
C10_AddItemFrame ==
  LastAdd => (products = prev.products /\ balance = prev.balance)

\* a second line for one product was added against the undiminished
\* counter: the two amounts together exceed it
C10_Witness ==
  /\ LastAdd /\ last.outcome = "added"
  /\ Len(items[last.cart]) = 2
  /\ items[last.cart][1].product = last.name
  /\ items[last.cart][1].amount + last.amount > Active(products[last.name])

\* C11 as claimed (Scenario A): with a non-expired by-weight product holding
\* 2000 g, add_item for 1000 g on an empty cart succeeds, and a following
\* add_item for 1500 g of the same product fails, so the cart holds only the
\* 1000 g line.  (The code violates it: the second add is compared with the
\* undiminished 2000 g and is appended.)
FreshCheese ==
  /\ LastAdd /\ last.name = "Cheese"
  /\ prev.products["Cheese"].by_weight
  /\ prev.products["Cheese"].available_weight = 2000
  /\ ~is_expired(prev.products["Cheese"], prev.now)

C11_ScenarioA ==
  /\ (FreshCheese /\ last.amount = 1000 /\ LinesBefore = <<>>) =>
        (last.outcome = "added"
           /\ items[last.cart] = <<[product |-> "Cheese", amount |-> 1000]>>)
  /\ (FreshCheese /\ last.amount = 1500
        /\ LinesBefore = <<[product |-> "Cheese", amount |-> 1000]>>) =>
        (last.outcome # "added"
           /\ items[last.cart] = <<[product |-> "Cheese", amount |-> 1000]>>)

\* the sum of the amounts of the lines of its that name product n
RECURSIVE Demand(_, _)
Demand(n, its) ==
  IF its = <<>> THEN 0
  ELSE (IF Head(its).product = n THEN Head(its).amount ELSE 0) + Demand(n, Tail(its))

\* C12: in a successful checkout each product's active counter decreases by
\* the sum of the amounts of all cart lines naming it, and a product no line
\* names keeps both its counters.
C12_DeductionsAccumulate ==
  (LastCheckout /\ last.outcome = "success") =>
     \A n \in DOMAIN prev.products :
        /\ Active(products[n]) = Active(prev.products[n]) - Demand(n, LinesBefore)
        /\ Inactive(products[n]) = Inactive(prev.products[n])
        /\ (\A i \in 1 .. Len(LinesBefore) : LinesBefore[i].product # n)
             => products[n] = prev.products[n]

\* a successful checkout of two lines for one product, of different amounts
C12_Witness ==
  /\ LastCheckout /\ last.outcome = "success"
  /\ Len(LinesBefore) = 2
  /\ LinesBefore[1].product = LinesBefore[2].product
  /\ LinesBefore[1].amount # LinesBefore[2].amount
  /\ Active(products[LinesBefore[1].product])
       = Active(prev.products[LinesBefore[1].product])
           - LinesBefore[1].amount - LinesBefore[2].amount

\* C13: checkout's outcome is, in this order, the empty-cart rejection, the
\* expired-item rejection (even when the balance is also insufficient), the
\* insufficient-balance rejection, success; a balance equal to subtotal + 5
\* succeeds and leaves 0.
AnyLineExpired ==
  \E i \in 1 .. Len(LinesBefore) :
     is_expired(prev.products[LinesBefore[i].product], prev.now)

TotalBefore == LineSum(prev.products, LinesBefore) + 5

ExpectedCheckout ==
  IF LinesBefore = <<>> THEN "empty"
  ELSE IF AnyLineExpired THEN "expired"
  ELSE IF prev.balance[Payer] < TotalBefore THEN "insufficient_balance"
  ELSE "success"

C13_CheckoutOutcomeOrder ==
  LastCheckout =>
     /\ last.outcome = ExpectedCheckout
     /\ (LinesBefore # <<>> /\ ~AnyLineExpired /\ prev.balance[Payer] = TotalBefore)
          => (last.outcome = "success" /\ balance[Payer] = 0)

\* a checkout with an expired line and too small a balance was refused as
\* expired
C13_Witness ==
  /\ LastCheckout /\ last.outcome = "expired"
  /\ AnyLineExpired
  /\ prev.balance[Payer] < TotalBefore

\* the lines of its whose product is shippable, in cart order, each as
\* ShippingService reports it
RECURSIVE ShippedLines(_, _)
ShippedLines(inv, its) ==
  IF its = <<>> THEN <<>>
  ELSE (IF inv[Head(its).product].is_shippable
          THEN <<[name |-> Head(its).product,
                  weight |-> IF inv[Head(its).product].by_weight
                               THEN Head(its).amount ELSE 0]>>
          ELSE <<>>)
       \o ShippedLines(inv, Tail(its))

\* C14: a successful checkout validates, then deducts every line, then
\* charges, then dispatches, then clears; it dispatches exactly once iff
\* some line is shippable, the dispatch carrying the shippable lines in cart
\* order with weight amount (by weight) or 0; a failed checkout dispatches
\* nothing and takes no step after validation.
C14_CheckoutStepsAndDispatch ==
  LastCheckout =>
     LET shipped == ShippedLines(prev.products, LinesBefore)
         n == Len(LinesBefore)
         k == Len(last.log)
     IN
     IF last.outcome = "success"
       THEN /\ last.dispatch = IF shipped # <<>> THEN <<shipped>> ELSE <<>>
            /\ last.log[1] = "validate"
            /\ \A i \in 2 .. n + 1 : last.log[i] = "deduct"
            /\ last.log[n + 2] = "charge"
            /\ last.log[k] = "clear"
            /\ k = n + 3 + Len(last.dispatch)
            /\ last.dispatch # <<>> => last.log[n + 3] = "dispatch"
       ELSE /\ last.dispatch = <<>>
            /\ last.log = <<"validate">>

\* a successful checkout of a non-shippable and a by-weight shippable line
\* dispatched the one shippable line
C14_Witness ==
  /\ LastCheckout /\ last.outcome = "success"
  /\ Len(LinesBefore) = 2
  /\ ~prev.products[LinesBefore[1].product].is_shippable
  /\ Len(last.dispatch) = 1
  /\ last.dispatch[1] = <<[name |-> LinesBefore[2].product,
                           weight |-> LinesBefore[2].amount]>>
  /\ last.log = <<"validate", "deduct", "deduct", "charge", "dispatch", "clear">>

\* C15: across add_item, checkout and deduct_stock calls the Inventory keeps
\* its product names, and every product its by_weight, price_per_unit,
\* is_shippable, expiration_date and inactive counter; deduct_stock(name,
\* amount) subtracts amount from the active counter of the named product,
\* whatever the stock, changes nothing else, and nothing for an absent name.
SameButStock(p, q) ==
  /\ p.name = q.name
  /\ p.by_weight = q.by_weight
  /\ p.price_per_unit = q.price_per_unit
  /\ p.is_shippable = q.is_shippable
  /\ p.expiration_date = q.expiration_date
  /\ Inactive(p) = Inactive(q)

C15_InventoryFrame ==
  /\ DOMAIN products = DOMAIN SeedProducts
  /\ \A n \in DOMAIN products : SameButStock(products[n], SeedProducts[n])
  /\ last.op = "deduct_stock" =>
        /\ balance = prev.balance
        /\ items = prev.items
        /\ \A n \in DOMAIN products :
              Active(products[n]) =
                 Active(prev.products[n]) - (IF n = last.name THEN last.amount ELSE 0)

\* a deduct_stock for more than the stock went through and left the counter
\* negative
C15_Witness ==
  /\ last.op = "deduct_stock"
  /\ last.name \in DOMAIN products
  /\ last.amount > Active(prev.products[last.name])
  /\ Active(products[last.name]) = Active(prev.products[last.name]) - last.amount
  /\ Active(products[last.name]) < 0

\* C16: with a single cart on the Inventory, non-negative amounts and never
\* two lines for one product in the cart, no stock counter is ever negative:
\* every line a checkout deducts is within its product's active counter.
C16_SingleCartStockNonNegative ==
  /\ \A n \in DOMAIN products :
        products[n].available_quantity >= 0 /\ products[n].available_weight >= 0
  /\ (LastCheckout /\ last.outcome = "success") =>
        \A i \in 1 .. Len(LinesBefore) :
           LinesBefore[i].amount <= Active(prev.products[LinesBefore[i].product])

\* a second order was checked out after a first one had reduced the stock,
\* and took exactly what was left of a product
C16_Witness ==
  /\ LastCheckout /\ last.outcome = "success"
  /\ \E i \in 1 .. Len(LinesBefore) :
        /\ LinesBefore[i].amount > 0
        /\ Active(prev.products[LinesBefore[i].product])
             < Active(SeedProducts[LinesBefore[i].product])
        /\ Active(products[LinesBefore[i].product]) = 0

\* C17: in every reachable state, for each product the seeded active stock
\* minus the current active stock is the sum of the amounts of that
\* product's lines over all successful checkouts, and for each customer the
\* seeded balance minus the current balance is the sum of subtotal + 5 over
\* that customer's successful checkouts; rejected adds and failed checkouts
\* contribute nothing.
C17_Conservation ==
  /\ \A n \in DOMAIN products :
        Active(SeedProducts[n]) - Active(products[n]) = sold[n]
  /\ \A u \in Customers : InitBalance - balance[u] = paid[u]
  /\ (LastCheckout /\ last.outcome = "success") =>
        /\ \A n \in DOMAIN products :
              Active(prev.products[n]) - Active(products[n]) = Demand(n, LinesBefore)
        /\ prev.balance[Payer] - balance[Payer] = TotalBefore
  /\ (LastAdd \/ (LastCheckout /\ last.outcome # "success")) =>
        (products = prev.products /\ balance = prev.balance)

\* both carts have completed an order, and a third call was rejected
C17_Witness ==
  /\ \A u \in Customers : paid[u] > 0
  /\ \E n \in DOMAIN products : sold[n] >= 2
  /\ LastCheckout /\ last.outcome = "insufficient_balance"

\* C18: with every requested amount positive and every price non-negative,
\* no call leaves a stock counter or a customer's balance higher than it
\* found it.
C18_NothingIncreases ==
  /\ \A n \in DOMAIN products :
        /\ products[n].available_quantity <= prev.products[n].available_quantity
        /\ products[n].available_weight <= prev.products[n].available_weight
  /\ \A u \in Customers : balance[u] <= prev.balance[u]

\* a completed order of positive amounts lowered a stock counter and the
\* customer's balance
C18_Witness ==
  /\ LastCheckout /\ last.outcome = "success"
  /\ \A i \in 1 .. Len(LinesBefore) :
        /\ LinesBefore[i].amount > 0
        /\ prev.products[LinesBefore[i].product].price_per_unit >= 0
        /\ Active(products[LinesBefore[i].product])
             < Active(prev.products[LinesBefore[i].product])
  /\ balance[Payer] < prev.balance[Payer]
  /\ Len(LinesBefore) = 2

====
